---- MODULE Spec2Model ----
(***************************************************************************)
(* Locale routing of the nexcn starter: src/middleware.ts.                 *)
(*                                                                         *)
(* Strings are sequences of one-character strings, so that startsWith,     *)
(* template concatenation and header parsing are computed character by     *)
(* character as the code computes them.                                    *)
(***************************************************************************)
EXTENDS Integers, Sequences, FiniteSets, TLC

(***************************************************************************)
(* Bounds of the model.                                                    *)
(***************************************************************************)
\* longest generated request pathname, leading "/" included
MaxPathLen == 4

(***************************************************************************)
(* Module scope of src/middleware.ts.  `locales` is an array object and    *)
(* `defaultLocale` a string, both created when the module is evaluated and *)
(* read by every invocation of the handler; the literals are what lines 5  *)
(* and 6 initialise them with.                                             *)
(***************************************************************************)
localesLiteral == << <<"e", "n">>, <<"a", "r">> >>

defaultLocaleLiteral == <<"e", "n">>

VARIABLES
    locales,        \* const locales = ["en", "ar"]
    defaultLocale   \* const defaultLocale = "en"

moduleVars == <<locales, defaultLocale>>

(***************************************************************************)
(* String primitives of the language.                                      *)
(***************************************************************************)
\* String.prototype.startsWith
startsWith(s, prefix) ==
    /\ Len(s) >= Len(prefix)
    /\ SubSeq(s, 1, Len(prefix)) = prefix

\* index of the first element of s at or after i that is in stop, Len(s)+1 if none
RECURSIVE indexOfAny(_, _, _)
indexOfAny(s, i, stop) ==
    IF i > Len(s) THEN Len(s) + 1
    ELSE IF s[i] \in stop THEN i
    ELSE indexOfAny(s, i + 1, stop)

\* String.prototype.split on a one-character separator
RECURSIVE split(_, _)
split(s, sep) ==
    LET k == indexOfAny(s, 1, {sep})
    IN IF k > Len(s) THEN << s >>
       ELSE << SubSeq(s, 1, k - 1) >> \o split(SubSeq(s, k + 1, Len(s)), sep)

WhiteSpace == {" "}

\* String.prototype.trim
RECURSIVE trim(_)
trim(s) ==
    IF s = << >> THEN s
    ELSE IF s[1] \in WhiteSpace THEN trim(SubSeq(s, 2, Len(s)))
    ELSE IF s[Len(s)] \in WhiteSpace THEN trim(SubSeq(s, 1, Len(s) - 1))
    ELSE s

(***************************************************************************)
(* Values a call can complete with: a returned value or a thrown error.    *)
(***************************************************************************)
Return(v) == [threw |-> FALSE, error |-> "none", value |-> v]

Throw(e) == [threw |-> TRUE, error |-> e, value |-> << >>]

(***************************************************************************)
(* Number.parseFloat, in thousandths.  NaN is its own value.  Exponents    *)
(* and digits after the third decimal place are not represented.           *)
(***************************************************************************)
NaN == [nan |-> TRUE, milli |-> 0]

Num(m) == [nan |-> FALSE, milli |-> m]

Digits == <<"0", "1", "2", "3", "4", "5", "6", "7", "8", "9">>

DigitSet == {Digits[i] : i \in 1..Len(Digits)}

digitValue(c) == (CHOOSE i \in 1..Len(Digits) : Digits[i] = c) - 1

\* index of the first element of s at or after i that is not in keep
RECURSIVE skipWhile(_, _, _)
skipWhile(s, i, keep) ==
    IF i > Len(s) THEN Len(s) + 1
    ELSE IF s[i] \in keep THEN skipWhile(s, i + 1, keep)
    ELSE i

RECURSIVE digitsValue(_)
digitsValue(ds) ==
    IF ds = << >> THEN 0
    ELSE 10 * digitsValue(SubSeq(ds, 1, Len(ds) - 1)) + digitValue(ds[Len(ds)])

parseFloat(s) ==
    LET a == skipWhile(s, 1, WhiteSpace)
        signed == a <= Len(s) /\ s[a] \in {"+", "-"}
        b == IF signed THEN a + 1 ELSE a
        c == skipWhile(s, b, DigitSet)
        intPart == SubSeq(s, b, c - 1)
        hasDot == c <= Len(s) /\ s[c] = "."
        d == IF hasDot THEN skipWhile(s, c + 1, DigitSet) ELSE c
        fracPart == IF hasDot THEN SubSeq(s, c + 1, d - 1) ELSE << >>
        frac3 == SubSeq(fracPart \o <<"0", "0", "0">>, 1, 3)
        magnitude == 1000 * digitsValue(intPart) + digitsValue(frac3)
    IN IF intPart = << >> /\ fracPart = << >> THEN NaN
       ELSE IF signed /\ s[a] = "-" THEN Num(0 - magnitude)
       ELSE Num(magnitude)

(***************************************************************************)
(* negotiator, lib/language.js: the parser behind Negotiator.languages().  *)
(***************************************************************************)
NoLanguage == [ok |-> FALSE, full |-> << >>, q |-> NaN, i |-> 0]

\* the q of the last "q=..." among the ";"-separated params, 1 if none
RECURSIVE qOfParams(_, _)
qOfParams(params, q) ==
    IF params = << >> THEN q
    ELSE LET p == split(params[1], "=")
             q1 == IF p[1] = <<"q">>
                   THEN (IF Len(p) >= 2 THEN parseFloat(p[2]) ELSE NaN)
                   ELSE q
         IN qOfParams(Tail(params), q1)

\* simpleLanguageRegExp = /^\s*([^\s\-;]+)(?:-([^\s;]+))?\s*(?:;(.*))?$/
parseLanguage(str, i) ==
    LET a == skipWhile(str, 1, WhiteSpace)
        b == indexOfAny(str, a, WhiteSpace \cup {"-", ";"})
        prefix == SubSeq(str, a, b - 1)
        dash == b <= Len(str) /\ str[b] = "-"
        c == IF dash THEN indexOfAny(str, b + 1, WhiteSpace \cup {";"}) ELSE b
        suffix == IF dash THEN SubSeq(str, b + 1, c - 1) ELSE << >>
        d == skipWhile(str, c, WhiteSpace)
        rest == IF d <= Len(str) THEN SubSeq(str, d + 1, Len(str)) ELSE << >>
        matched == /\ prefix # << >>
                   /\ dash => suffix # << >>
                   /\ d > Len(str) \/ str[d] = ";"
        full == IF suffix # << >> THEN prefix \o <<"-">> \o suffix ELSE prefix
        q == IF rest # << >> THEN qOfParams(split(rest, ";"), Num(1000))
             ELSE Num(1000)
    IN IF matched THEN [ok |-> TRUE, full |-> full, q |-> q, i |-> i]
       ELSE NoLanguage

\* parseAcceptLanguage: split on ",", parse each trimmed piece, drop the misses
RECURSIVE parsePieces(_, _)
parsePieces(accepts, i) ==
    IF i > Len(accepts) THEN << >>
    ELSE LET language == parseLanguage(trim(accepts[i]), i - 1)
         IN (IF language.ok THEN << language >> ELSE << >>)
            \o parsePieces(accepts, i + 1)

parseAcceptLanguage(accept) == parsePieces(split(accept, ","), 1)

isQuality(spec) == ~spec.q.nan /\ spec.q.milli > 0

\* compareSpecs(a, b) < 0: a sorts before b (higher q, then earlier position)
specBefore(a, b) ==
    \/ a.q.milli > b.q.milli
    \/ a.q.milli = b.q.milli /\ a.i < b.i

RECURSIVE insertSpec(_, _)
insertSpec(sorted, x) ==
    IF sorted = << >> THEN << x >>
    ELSE IF specBefore(x, sorted[1]) THEN << x >> \o sorted
    ELSE << sorted[1] >> \o insertSpec(Tail(sorted), x)

RECURSIVE sortSpecs(_)
sortSpecs(specs) ==
    IF specs = << >> THEN << >>
    ELSE insertSpec(sortSpecs(SubSeq(specs, 1, Len(specs) - 1)), specs[Len(specs)])

\* preferredLanguages(accept) without a provided list: filter, sort, map to full
preferredLanguages(accept) ==
    LET specs == sortSpecs(SelectSeq(parseAcceptLanguage(accept), isQuality))
    IN [k \in 1..Len(specs) |-> specs[k].full]

(***************************************************************************)
(* negotiator, index.js:                                                   *)
(*   function Negotiator(request) { this.request = request }               *)
(*   languages() { return preferredLanguages(                              *)
(*                   this.request.headers['accept-language']) }            *)
(* A request is a function from property names to values.  Reading a       *)
(* property of the undefined `headers` is a TypeError.                      *)
(***************************************************************************)
\* `accept === undefined ? '*' : accept || ''`
acceptOf(headers) ==
    IF "accept-language" \in DOMAIN headers THEN headers["accept-language"] ELSE <<"*">>

NegotiatorLanguages(request) ==
    IF "headers" \notin DOMAIN request THEN Throw("TypeError")
    ELSE Return(preferredLanguages(acceptOf(request["headers"])))

(***************************************************************************)
(* @formatjs/intl-localematcher: match(requested, available, default).     *)
(* The requested tags are canonicalized first (Intl.getCanonicalLocales    *)
(* throws RangeError on a tag that is not well formed), then each is       *)
(* looked up in order, dropping trailing subtags until one is available.   *)
(* On the two available locales here, both of the library's matchers give  *)
(* the lookup's answer for tags of the form language[-region].             *)
(***************************************************************************)
Upper == <<"A", "B", "C", "D", "E", "F", "G", "H", "I", "J", "K", "L", "M",
           "N", "O", "P", "Q", "R", "S", "T", "U", "V", "W", "X", "Y", "Z">>

Lower == <<"a", "b", "c", "d", "e", "f", "g", "h", "i", "j", "k", "l", "m",
           "n", "o", "p", "q", "r", "s", "t", "u", "v", "w", "x", "y", "z">>

Letters == {Upper[i] : i \in 1..26} \cup {Lower[i] : i \in 1..26}

toLowerChar(c) ==
    IF \E i \in 1..26 : Upper[i] = c
    THEN Lower[CHOOSE i \in 1..26 : Upper[i] = c]
    ELSE c

toUpperChar(c) ==
    IF \E i \in 1..26 : Lower[i] = c
    THEN Upper[CHOOSE i \in 1..26 : Lower[i] = c]
    ELSE c

RECURSIVE join(_, _)
join(parts, sep) ==
    IF parts = << >> THEN << >>
    ELSE IF Len(parts) = 1 THEN parts[1]
    ELSE parts[1] \o << sep >> \o join(Tail(parts), sep)

\* well formed: a language of 2-3 or 5-8 letters, then subtags of 1-8
\* letters or digits
isWellFormedTag(tag) ==
    LET subtags == split(tag, "-")
    IN /\ Len(subtags[1]) \in {2, 3, 5, 6, 7, 8}
       /\ \A k \in 1..Len(subtags[1]) : subtags[1][k] \in Letters
       /\ \A j \in 2..Len(subtags) :
            /\ Len(subtags[j]) \in 1..8
            /\ \A k \in 1..Len(subtags[j]) : subtags[j][k] \in Letters \cup DigitSet

\* canonical case: language in lower case, a two-letter region in upper case
canonicalizeTag(tag) ==
    LET subtags == split(tag, "-")
    IN join([j \in 1..Len(subtags) |->
               IF j = 1 THEN [k \in 1..Len(subtags[j]) |-> toLowerChar(subtags[j][k])]
               ELSE IF Len(subtags[j]) = 2
                    THEN [k \in 1..Len(subtags[j]) |-> toUpperChar(subtags[j][k])]
                    ELSE subtags[j]],
            "-")

\* BestAvailableLocale: the longest prefix of the tag, cut at "-", that is available
RECURSIVE BestAvailableLocale(_, _)
BestAvailableLocale(available, candidate) ==
    IF \E i \in 1..Len(available) : available[i] = candidate THEN Return(candidate)
    ELSE LET subtags == split(candidate, "-")
         IN IF Len(subtags) <= 1 THEN Throw("none")
            ELSE BestAvailableLocale(available,
                                     join(SubSeq(subtags, 1, Len(subtags) - 1), "-"))

RECURSIVE lookupMatch(_, _, _)
lookupMatch(requested, available, default) ==
    IF requested = << >> THEN default
    ELSE LET found == BestAvailableLocale(available, requested[1])
         IN IF ~found.threw THEN found.value
            ELSE lookupMatch(Tail(requested), available, default)

match(requested, available, default) ==
    IF \E k \in 1..Len(requested) : ~isWellFormedTag(requested[k])
    THEN Throw("RangeError")
    ELSE Return(lookupMatch([k \in 1..Len(requested) |-> canonicalizeTag(requested[k])],
                            available, default))

(***************************************************************************)
(* src/middleware.ts, getLocale.  A header is [present, value]:            *)
(* headers.get returns null for an absent header, and null and "" are      *)
(* both falsy for ||.                                                      *)
(***************************************************************************)
\* line 14, reached only when line 13 returned
matchLanguages(languages) ==
    IF languages.threw THEN languages
    ELSE match(languages.value, locales, defaultLocale)

\* request.headers.get("accept-language") || defaultLocale
acceptLanguage(header) ==
    IF header.present /\ header.value # << >> THEN header.value ELSE defaultLocale

getLocale(header) ==
    matchLanguages(NegotiatorLanguages([n \in {"accept-language"} |-> acceptLanguage(header)]))

(***************************************************************************)
(* next/server.  A NextURL keeps the pathname it was given and whether the *)
(* URL it was built from ended in "/"; its href drops a trailing "/" from  *)
(* the pathname unless that flag is set (removeTrailingSlash keeps "/").   *)
(* Its other components are the query string and the host, which stands    *)
(* for protocol, host name and port.                                       *)
(***************************************************************************)
endsWithSlash(s) == s # << >> /\ s[Len(s)] = "/"

NextURL(path) ==
    [pathname |-> path,
     trailingSlash |-> IF path # <<"/">> THEN endsWithSlash(path) ELSE FALSE,
     search |-> "",
     host |-> "localhost:3000"]

\* the NextURL of a request for path on a host, with a query string
NextURLOf(path, rest) ==
    [NextURL(path) EXCEPT !.search = rest.search, !.host = rest.host]

removeTrailingSlash(route) ==
    IF endsWithSlash(route) /\ Len(route) > 1
    THEN SubSeq(route, 1, Len(route) - 1)
    ELSE route

hrefPath(url) ==
    IF url.trailingSlash
    THEN (IF endsWithSlash(url.pathname) THEN url.pathname ELSE url.pathname \o <<"/">>)
    ELSE removeTrailingSlash(url.pathname)

(***************************************************************************)
(* Responses: none yet, continue to the page ("next"), a redirect to a     *)
(* location, or the failure of a handler that threw.                       *)
(***************************************************************************)
NoResponse ==
    [kind |-> "none", location |-> << >>, search |-> "", host |-> "", error |-> "none"]

NextResponseNext ==
    [kind |-> "next", location |-> << >>, search |-> "", host |-> "", error |-> "none"]

\* NextResponse.redirect(url): the Location is the href of url
NextResponseRedirect(url) ==
    [kind |-> "redirect", location |-> hrefPath(url),
     search |-> url.search, host |-> url.host, error |-> "none"]

ErrorResponse(e) ==
    [kind |-> "error", location |-> << >>, search |-> "", host |-> "", error |-> e]

NoLocale == Throw("unset")

(***************************************************************************)
(* Requests the environment can send.                                      *)
(***************************************************************************)
PathChars == {"/", "e", "n", "a", "r", "E"}

GeneratedPaths ==
    {p \in UNION {[1..n -> PathChars] : n \in 1..MaxPathLen} : p[1] = "/"}

ExamplePaths ==
    {
      \* "/about"
      <<"/", "a", "b", "o", "u", "t">>,
      \* "/en/about"
      <<"/", "e", "n", "/", "a", "b", "o", "u", "t">>,
      \* "/ar/about"
      <<"/", "a", "r", "/", "a", "b", "o", "u", "t">>,
      \* "/fr/about"
      <<"/", "f", "r", "/", "a", "b", "o", "u", "t">>,
      \* "/english"
      <<"/", "e", "n", "g", "l", "i", "s", "h">>,
      \* "/arx/y"
      <<"/", "a", "r", "x", "/", "y">>,
      \* "/EN/about"
      <<"/", "E", "N", "/", "a", "b", "o", "u", "t">>,
      \* "/en/fr/about"
      <<"/", "e", "n", "/", "f", "r", "/", "a", "b", "o", "u", "t">>,
      \* "/_next"
      <<"/", "_", "n", "e", "x", "t">>,
      \* "/_next/static/a.js"
      <<"/", "_", "n", "e", "x", "t", "/", "s", "t", "a", "t", "i", "c", "/", "a", ".", "j", "s">>,
      \* "/_nextjs"
      <<"/", "_", "n", "e", "x", "t", "j", "s">>,
      \* "/_nex"
      <<"/", "_", "n", "e", "x">>,
      \* "/a/_next"
      <<"/", "a", "/", "_", "n", "e", "x", "t">>
    }

Paths == GeneratedPaths \cup ExamplePaths

HeaderValues ==
    {
      \* ""
      <<>>,
      \* "en"
      <<"e", "n">>,
      \* "ar"
      <<"a", "r">>,
      \* "fr"
      <<"f", "r">>,
      \* "*"
      <<"*">>,
      \* "ar;q=0.9,en;q=0.5"
      <<"a", "r", ";", "q", "=", "0", ".", "9", ",", "e", "n", ";", "q", "=", "0", ".", "5">>,
      \* "en;q=0.5,ar;q=0.9"
      <<"e", "n", ";", "q", "=", "0", ".", "5", ",", "a", "r", ";", "q", "=", "0", ".", "9">>,
      \* "ar,en"
      <<"a", "r", ",", "e", "n">>,
      \* "en,ar"
      <<"e", "n", ",", "a", "r">>,
      \* "fr,ar;q=0.8"
      <<"f", "r", ",", "a", "r", ";", "q", "=", "0", ".", "8">>,
      \* "en-US,en;q=0.9,ar;q=0.8"
      <<"e", "n", "-", "U", "S", ",", "e", "n", ";", "q", "=", "0", ".", "9", ",", "a", "r", ";", "q", "=", "0", ".", "8">>,
      \* "ar-EG, en;q=0.9"
      <<"a", "r", "-", "E", "G", ",", " ", "e", "n", ";", "q", "=", "0", ".", "9">>,
      \* ";;q=,"
      <<";", ";", "q", "=", ",">>,
      \* "ar;q=0,en;q=0"
      <<"a", "r", ";", "q", "=", "0", ",", "e", "n", ";", "q", "=", "0">>,
      \* "fr;q=0.9,en;q=0.3,ar;q=0.7"
      <<"f", "r", ";", "q", "=", "0", ".", "9", ",", "e", "n", ";", "q", "=", "0", ".", "3", ",", "a", "r", ";", "q", "=", "0", ".", "7">>
    }

AbsentHeader == [present |-> FALSE, value |-> << >>]

\* the rest of the URL of a request: query string and host
UrlRests ==
    {[search |-> "", host |-> "localhost:3000"],
     [search |-> "?page=2", host |-> "nexcn.example"]}

Headers == {AbsentHeader} \cup {[present |-> TRUE, value |-> v] : v \in HeaderValues}

(***************************************************************************)
(* State: one request at a time goes through the middleware.               *)
(***************************************************************************)
VARIABLES
    pc,         \* "idle", "received" (middleware about to run), "done",
                \* "served" (answered by the router without the middleware)
    pathname,   \* the pathname the request arrived with
    header,     \* its accept-language header, [present, value]
    nextUrl,    \* request.nextUrl
    locale,     \* what the call of getLocale completed with, NoLocale if not called
    response    \* what the middleware answered

serverVars == <<pc, pathname, header, nextUrl, locale, response>>

(***************************************************************************)
(* State of the other parts of the application.                            *)
(***************************************************************************)
VARIABLES
    reqs,       \* requests in flight when several are handled concurrently
    mounted,    \* ThemeSwitcherMultiButton: React state `mounted`
    theme,      \* next-themes: the current theme
    dom,        \* ThemeSwitcherMultiButton: what its last render returned
    clicks,     \* the setTheme calls made so far, oldest first
    page,       \* the browser: the page shown, with usePathname and useLocale
    lastPush,   \* the last router.push of a language switcher
    prevPush,   \* the router.push before it, in the same visit
    hops        \* redirects followed for the navigation in progress

concVars == <<reqs>>

themeVars == <<mounted, theme, dom, clicks>>

browserVars == <<page, lastPush, prevPush, hops>>

vars == <<locales, defaultLocale, pc, pathname, header, nextUrl, locale, response,
          reqs, mounted, theme, dom, clicks, page, lastPush, prevPush, hops>>

\* the values of the state a specification does not use
NoRequests == << >>

Skeleton == [kind |-> "skeleton", active |-> {}]

NoPage == [kind |-> "none", pathname |-> << >>, locale |-> << >>]

NoPush == [by |-> "none", newLocale |-> << >>, path |-> << >>, from |-> NoPage]

ModuleInit ==
    /\ locales = localesLiteral
    /\ defaultLocale = defaultLocaleLiteral

ServerIdle ==
    /\ pc = "idle"
    /\ pathname = <<"/">>
    /\ header = AbsentHeader
    /\ nextUrl = NextURL(<<"/">>)
    /\ locale = NoLocale
    /\ response = NoResponse

NoConcurrency == reqs = NoRequests

NoThemeSwitcher ==
    /\ mounted = FALSE
    /\ theme = "system"
    /\ dom = Skeleton
    /\ clicks = << >>

NoBrowser ==
    /\ page = NoPage
    /\ lastPush = NoPush
    /\ prevPush = NoPush
    /\ hops = 0

TypeOK ==
    /\ pc \in {"idle", "received", "done", "served"}
    /\ locales \in Seq(Seq(Letters))
    /\ pathname # << >> /\ pathname[1] = "/"
    /\ header.present \in BOOLEAN
    /\ locale.threw \in BOOLEAN
    /\ response.kind \in {"none", "next", "redirect", "error"}

Init ==
    /\ ModuleInit
    /\ ServerIdle
    /\ NoConcurrency
    /\ NoThemeSwitcher
    /\ NoBrowser

\* config.matcher without the negative lookahead: "/(.*)"
matcher_everything(path) == startsWith(path, <<"/">>)

\* src/middleware.ts lines 34-41, config.matcher = ["/((?!_next).*)"]:
\* a "/" followed by anything that does not begin with "_next"
matcher(path) ==
    /\ startsWith(path, <<"/">>)
    /\ ~startsWith(SubSeq(path, 2, Len(path)), <<"_", "n", "e", "x", "t">>)

\* a request arrives on a path the matcher selects: the middleware will run
Receive(p, h) ==
    /\ pc = "idle"
    /\ matcher(p)
    /\ pc' = "received"
    /\ pathname' = p
    /\ header' = h
    /\ \E rest \in UrlRests : nextUrl' = NextURLOf(p, rest)
    /\ locale' = NoLocale
    /\ response' = NoResponse
    /\ UNCHANGED <<moduleVars, concVars, themeVars, browserVars>>

\* a request arrives on a path the matcher skips: the router answers it
\* without calling the middleware
Bypass(p, h) ==
    /\ pc = "idle"
    /\ ~matcher(p)
    /\ pc' = "served"
    /\ pathname' = p
    /\ header' = h
    /\ \E rest \in UrlRests : nextUrl' = NextURLOf(p, rest)
    /\ locale' = NoLocale
    /\ response' = NoResponse
    /\ UNCHANGED <<moduleVars, concVars, themeVars, browserVars>>

\* pathnameHasLocale without the `pathname === "/" + locale` disjunct
pathnameHasLocale_startsWithOnly(path) ==
    \E i \in 1..Len(locales) : startsWith(path, <<"/">> \o locales[i] \o <<"/">>)

\* src/middleware.ts lines 20-22
pathnameHasLocale(path) ==
    \E i \in 1..Len(locales) :
        \/ startsWith(path, <<"/">> \o locales[i] \o <<"/">>)
        \/ path = <<"/">> \o locales[i]

\* middleware with an in-place `locales.reverse()` before the check
middleware_reversesLocales ==
    /\ pc = "received"
    /\ pc' = "done"
    /\ locales' = [i \in 1..Len(locales) |-> locales[Len(locales) + 1 - i]]
    /\ IF pathnameHasLocale(nextUrl.pathname)
       THEN /\ response' = NextResponseNext
            /\ UNCHANGED <<nextUrl, locale>>
       ELSE /\ locale' = getLocale(header)
            /\ IF locale'.threw
               THEN /\ response' = ErrorResponse(locale'.error)
                    /\ UNCHANGED nextUrl
               ELSE /\ nextUrl' = [nextUrl EXCEPT
                                     !.pathname = <<"/">> \o locale'.value \o pathname]
                    /\ response' = NextResponseRedirect(nextUrl')
    /\ UNCHANGED <<pathname, header, defaultLocale>>
    /\ UNCHANGED <<concVars, themeVars, browserVars>>

\* middleware that assigns request.nextUrl.pathname before the early return
middleware_rewritesFirst ==
    /\ pc = "received"
    /\ pc' = "done"
    /\ IF pathnameHasLocale(nextUrl.pathname)
       THEN /\ response' = NextResponseNext
            /\ nextUrl' = [nextUrl EXCEPT
                              !.pathname = <<"/">> \o defaultLocale \o pathname]
            /\ UNCHANGED locale
       ELSE /\ locale' = getLocale(header)
            /\ IF locale'.threw
               THEN /\ response' = ErrorResponse(locale'.error)
                    /\ UNCHANGED nextUrl
               ELSE /\ nextUrl' = [nextUrl EXCEPT
                                     !.pathname = <<"/">> \o locale'.value \o pathname]
                    /\ response' = NextResponseRedirect(nextUrl')
    /\ UNCHANGED <<pathname, header>>
    /\ UNCHANGED <<locales, defaultLocale>>
    /\ UNCHANGED <<concVars, themeVars, browserVars>>

\* src/middleware.ts, middleware(request), run to completion
middleware ==
    /\ pc = "received"
    /\ pc' = "done"
    /\ IF pathnameHasLocale(nextUrl.pathname)
       THEN /\ response' = NextResponseNext
            /\ UNCHANGED <<nextUrl, locale>>
       ELSE /\ locale' = getLocale(header)
            /\ IF locale'.threw
               THEN /\ response' = ErrorResponse(locale'.error)
                    /\ UNCHANGED nextUrl
               ELSE /\ nextUrl' = [nextUrl EXCEPT
                                     !.pathname = <<"/">> \o locale'.value \o pathname]
                    /\ response' = NextResponseRedirect(nextUrl')
    /\ UNCHANGED <<pathname, header>>
    /\ UNCHANGED <<locales, defaultLocale>>
    /\ UNCHANGED <<concVars, themeVars, browserVars>>

\* the response has been sent and the request object is gone; the next
\* request can arrive
Respond ==
    /\ pc \in {"done", "served"}
    /\ pc' = "idle"
    /\ pathname' = <<"/">>
    /\ header' = AbsentHeader
    /\ nextUrl' = NextURL(<<"/">>)
    /\ locale' = NoLocale
    /\ response' = NoResponse
    /\ UNCHANGED <<moduleVars, concVars, themeVars, browserVars>>

Next ==
    \/ \E p \in Paths, h \in Headers : Receive(p, h)
    \/ \E p \in Paths, h \in Headers : Bypass(p, h)
    \/ middleware
    \/ Respond

Spec == Init /\ [][Next]_vars

(***************************************************************************)
(* Several requests in flight.  The handler is synchronous, so each        *)
(* invocation runs to completion; invocations of different requests        *)
(* interleave in any order and share the module scope.                     *)
(***************************************************************************)
\* number of requests that can be in flight at once
NumRequests == 2

ReqIds == 1..NumRequests

ConcPaths ==
    { <<"/">>, <<"/", "e", "n">>, <<"/", "a", "r", "/">>, <<"/", "e">> }

ConcHeaders ==
    { AbsentHeader,
      [present |-> TRUE, value |-> <<"a", "r">>],
      [present |-> TRUE, value |-> <<"*">>] }

IdleRequest ==
    [pc |-> "idle", pathname |-> <<"/">>, header |-> AbsentHeader,
     nextUrl |-> NextURL(<<"/">>), locale |-> NoLocale, response |-> NoResponse]

InitConc ==
    /\ ModuleInit
    /\ ServerIdle
    /\ reqs = [r \in ReqIds |-> IdleRequest]
    /\ NoThemeSwitcher
    /\ NoBrowser

ReceiveOn(r, p, h) ==
    /\ reqs[r].pc = "idle"
    /\ matcher(p)
    /\ reqs' = [reqs EXCEPT ![r] =
                  [pc |-> "received", pathname |-> p, header |-> h,
                   nextUrl |-> NextURL(p), locale |-> NoLocale,
                   response |-> NoResponse]]
    /\ UNCHANGED <<moduleVars, serverVars, themeVars, browserVars>>

\* lines 27-31 for the request req, given what getLocale completed with
afterGetLocale(req, result) ==
    IF result.threw
    THEN [req EXCEPT !.pc = "done",
                     !.locale = result,
                     !.response = ErrorResponse(result.error)]
    ELSE [req EXCEPT !.pc = "done",
                     !.locale = result,
                     !.nextUrl = [@ EXCEPT !.pathname =
                                     <<"/">> \o result.value \o req.pathname],
                     !.response = NextResponseRedirect(
                                     [req.nextUrl EXCEPT !.pathname =
                                         <<"/">> \o result.value \o req.pathname])]

\* middleware that takes its fallback with `locales.shift()`
middlewareOn_shiftsLocales(r) ==
    /\ reqs[r].pc = "received"
    /\ IF pathnameHasLocale(reqs[r].nextUrl.pathname)
       THEN /\ reqs' = [reqs EXCEPT ![r].pc = "done",
                                    ![r].response = NextResponseNext]
            /\ UNCHANGED locales
       ELSE /\ reqs' = [reqs EXCEPT ![r] = afterGetLocale(@, getLocale(@.header))]
            /\ locales' = IF locales = << >> THEN locales ELSE Tail(locales)
    /\ UNCHANGED defaultLocale
    /\ UNCHANGED <<serverVars, themeVars, browserVars>>

\* src/middleware.ts, middleware(request) for the request r, run to completion
middlewareOn(r) ==
    /\ reqs[r].pc = "received"
    /\ IF pathnameHasLocale(reqs[r].nextUrl.pathname)
       THEN reqs' = [reqs EXCEPT ![r].pc = "done",
                                 ![r].response = NextResponseNext]
       ELSE reqs' = [reqs EXCEPT ![r] = afterGetLocale(@, getLocale(@.header))]
    /\ UNCHANGED <<locales, defaultLocale>>
    /\ UNCHANGED <<serverVars, themeVars, browserVars>>

RespondOn(r) ==
    /\ reqs[r].pc = "done"
    /\ reqs' = [reqs EXCEPT ![r] = IdleRequest]
    /\ UNCHANGED <<moduleVars, serverVars, themeVars, browserVars>>

NextConc ==
    \/ \E r \in ReqIds, p \in ConcPaths, h \in ConcHeaders : ReceiveOn(r, p, h)
    \/ \E r \in ReqIds : middlewareOn(r)
    \/ \E r \in ReqIds : RespondOn(r)

SpecConc == InitConc /\ [][NextConc]_vars

(***************************************************************************)
(* src/components/theme-switcher-multi-button.tsx, one mounted instance of *)
(* ThemeSwitcherMultiButton, beside the ModeToggle menu of                 *)
(* src/components/mode-toggle.tsx; both call setTheme of next-themes,      *)
(* which sets the theme and re-renders its consumers.                      *)
(***************************************************************************)
\* longest recorded sequence of setTheme calls
MaxClicks == 3

\* theme-switcher-multi-button.tsx lines 66-74, the values of `themes`
themes == <<"system", "light", "dark">>

\* mode-toggle.tsx lines 49-57, the values of the menu items
menuItems == <<"light", "dark", "system">>

\* the render without the `if (!mounted)` return
ThemeSwitcherMultiButton_noSkeleton(isMounted, currentTheme) ==
    [kind |-> "buttons",
     active |-> {themes[i] : i \in {j \in 1..Len(themes) : currentTheme = themes[j]}}]

\* what the component returns: the skeleton while not mounted (lines 46-62),
\* else one button per theme, active where `theme === value` (lines 76-113)
ThemeSwitcherMultiButton(isMounted, currentTheme) ==
    IF ~isMounted THEN Skeleton
    ELSE [kind |-> "buttons",
          active |-> {themes[i] : i \in {j \in 1..Len(themes) : currentTheme = themes[j]}}]

\* the first render, on the client: useState(false), and the theme that
\* next-themes reads from storage, "system" when nothing is stored
InitTheme ==
    /\ ModuleInit
    /\ ServerIdle
    /\ NoConcurrency
    /\ NoBrowser
    /\ mounted = FALSE
    /\ theme \in {themes[i] : i \in 1..Len(themes)}
    /\ dom = ThemeSwitcherMultiButton(FALSE, theme)
    /\ clicks = << >>

\* lines 42-44: the effect of the first commit, and the render it causes
MountEffect ==
    /\ ~mounted
    /\ mounted' = TRUE
    /\ dom' = ThemeSwitcherMultiButton(TRUE, theme)
    /\ UNCHANGED <<theme, clicks>>
    /\ UNCHANGED <<moduleVars, serverVars, concVars, browserVars>>

\* setTheme that leaves the theme as it was
ClickButton_noEffect(value) ==
    /\ dom.kind = "buttons"
    /\ Len(clicks) < MaxClicks
    /\ clicks' = Append(clicks, [by |-> "button", value |-> value])
    /\ UNCHANGED <<theme, dom, mounted>>
    /\ UNCHANGED <<moduleVars, serverVars, concVars, browserVars>>

\* line 93: onClick={() => setTheme(value)} of a rendered button
ClickButton(value) ==
    /\ dom.kind = "buttons"
    /\ Len(clicks) < MaxClicks
    /\ theme' = value
    /\ dom' = ThemeSwitcherMultiButton(mounted, value)
    /\ clicks' = Append(clicks, [by |-> "button", value |-> value])
    /\ UNCHANGED mounted
    /\ UNCHANGED <<moduleVars, serverVars, concVars, browserVars>>

\* mode-toggle.tsx lines 49-57: onClick={() => setTheme(...)} of a menu item
SelectMenuItem(value) ==
    /\ Len(clicks) < MaxClicks
    /\ theme' = value
    /\ dom' = ThemeSwitcherMultiButton(mounted, value)
    /\ clicks' = Append(clicks, [by |-> "menu", value |-> value])
    /\ UNCHANGED mounted
    /\ UNCHANGED <<moduleVars, serverVars, concVars, browserVars>>

NextTheme ==
    \/ MountEffect
    \/ \E i \in 1..Len(themes) : ClickButton(themes[i])
    \/ \E i \in 1..Len(menuItems) : SelectMenuItem(menuItems[i])

SpecTheme == InitTheme /\ [][NextTheme]_vars

(***************************************************************************)
(* src/components/language-switcher-multi-button.tsx: the two language     *)
(* switchers.  Both read usePathname(); LanguageSwitcherMultiButton also   *)
(* reads useLocale().  A click computes a path and calls router.push.      *)
(***************************************************************************)
\* String.prototype.slice(start) for a start that is not negative
slice(str, start) ==
    IF start >= Len(str) THEN << >> ELSE SubSeq(str, start + 1, Len(str))

\* String.prototype.indexOf, 1-based; 0 when pattern does not occur
RECURSIVE indexFrom(_, _, _)
indexFrom(str, pattern, i) ==
    IF i + Len(pattern) - 1 > Len(str) THEN 0
    ELSE IF SubSeq(str, i, i + Len(pattern) - 1) = pattern THEN i
    ELSE indexFrom(str, pattern, i + 1)

\* String.prototype.replace with a string pattern: the first occurrence only
replace(str, pattern, replacement) ==
    IF indexFrom(str, pattern, 1) = 0 THEN str
    ELSE SubSeq(str, 1, indexFrom(str, pattern, 1) - 1)
         \o replacement
         \o slice(str, indexFrom(str, pattern, 1) - 1 + Len(pattern))

\* `${x}` of something that may be undefined
undefinedText == <<"u", "n", "d", "e", "f", "i", "n", "e", "d">>

\* a || "/"
orSlash(str) == IF str = << >> THEN <<"/">> ELSE str

\* lines 53-57, the values of `languages`
languages == << <<"e", "n">>, <<"a", "r">> >>

\* lines 136-141, the arguments of the menu items
menuLocales == << <<"e", "n">>, <<"a", "r">> >>

\* switchLanguage that slices `locale.length` characters
switchLanguage_sliceShort(path, currentLocale, newLocale) ==
    <<"/">> \o newLocale \o orSlash(slice(path, Len(currentLocale)))

\* switchLanguage without the `|| "/"`
switchLanguage_noFallback(path, currentLocale, newLocale) ==
    <<"/">> \o newLocale \o slice(path, Len(currentLocale) + 1)

\* lines 44-49, LanguageSwitcherMultiButton.switchLanguage: the pushed path
switchLanguage(path, currentLocale, newLocale) ==
    <<"/">> \o newLocale \o orSlash(slice(path, Len(currentLocale) + 1))

\* line 120: pathname.split("/")[1]
firstSegment(path) ==
    IF Len(split(path, "/")) >= 2 THEN split(path, "/")[2] ELSE undefinedText

\* LanguageToggle.switchLanguage that reads pathname.split("/")[0]
toggleSwitchLanguage_splitsAtZero(path, newLocale) ==
    <<"/">> \o newLocale \o orSlash(replace(path, <<"/">> \o split(path, "/")[1], << >>))

\* LanguageToggle.switchLanguage that pushes `/${newLocale}${pathname}`
toggleSwitchLanguage_keepsLocale(path, newLocale) ==
    <<"/">> \o newLocale \o orSlash(path)

\* lines 118-125, LanguageToggle.switchLanguage: the pushed path
toggleSwitchLanguage(path, newLocale) ==
    <<"/">> \o newLocale \o orSlash(replace(path, <<"/">> \o firstSegment(path), << >>))

\* useLocale(): the locale of the [locale] segment the page is rendered
\* under, "en" or "ar"
useLocale(path) ==
    IF \E i \in 1..Len(languages) : languages[i] = firstSegment(path)
    THEN firstSegment(path)
    ELSE languages[1]

Page(path, hookLocale) == [kind |-> "page", pathname |-> path, locale |-> hookLocale]

\* line 76: onClick={() => switchLanguage(value)} of a language button
ClickLanguageButton(newLocale) ==
    /\ page.kind = "page"
    /\ lastPush' = [by |-> "button", newLocale |-> newLocale,
                    path |-> switchLanguage(page.pathname, page.locale, newLocale),
                    from |-> page]
    /\ prevPush' = lastPush
    /\ page' = [page EXCEPT !.kind = "navigating"]
    /\ UNCHANGED hops
    /\ UNCHANGED <<moduleVars, serverVars, concVars, themeVars>>

\* lines 136-141: onClick={() => switchLanguage(...)} of a menu item
SelectLanguageItem(newLocale) ==
    /\ page.kind = "page"
    /\ lastPush' = [by |-> "menu", newLocale |-> newLocale,
                    path |-> toggleSwitchLanguage(page.pathname, newLocale),
                    from |-> page]
    /\ prevPush' = lastPush
    /\ page' = [page EXCEPT !.kind = "navigating"]
    /\ UNCHANGED hops
    /\ UNCHANGED <<moduleVars, serverVars, concVars, themeVars>>

(***************************************************************************)
(* The two switchLanguage functions on any pathname and hook locale.       *)
(***************************************************************************)
InitSwitch ==
    /\ ModuleInit
    /\ ServerIdle
    /\ NoConcurrency
    /\ NoThemeSwitcher
    /\ page \in {Page(p, languages[i]) : p \in Paths, i \in 1..Len(languages)}
    /\ lastPush = NoPush
    /\ prevPush = NoPush
    /\ hops = 0

NextSwitch ==
    \/ \E i \in 1..Len(languages) : ClickLanguageButton(languages[i])
    \/ \E i \in 1..Len(menuLocales) : SelectLanguageItem(menuLocales[i])

SpecSwitch == InitSwitch /\ [][NextSwitch]_vars

(***************************************************************************)
(* Navigation: a browser tab on a page of the app.  A typed URL or a       *)
(* router.push sends a request, src/middleware.ts routes it and the tab    *)
(* settles on a page, follows the redirect or shows the error.             *)
(***************************************************************************)
MaxHops == 2

Loading == [kind |-> "loading", pathname |-> << >>, locale |-> << >>]

\* the server side of a request for path p: config.matcher, then middleware
Request(p, h) ==
    /\ pc = "idle"
    /\ pc' = IF matcher(p) THEN "received" ELSE "served"
    /\ pathname' = p
    /\ header' = h
    /\ nextUrl' = NextURL(p)
    /\ locale' = NoLocale
    /\ response' = NoResponse

\* the pages the app renders: under /en or /ar, useLocale() the segment
SettledPages ==
    {Page(p, useLocale(p)) :
        p \in {q \in Paths : \E i \in 1..Len(languages) :
                                 \/ q = <<"/">> \o languages[i]
                                 \/ startsWith(q, <<"/">> \o languages[i] \o <<"/">>)}}

\* a URL typed into the address bar, or a reload
Visit(p, h) ==
    /\ page.kind \in {"page", "error", "asset"}
    /\ Request(p, h)
    /\ page' = Loading
    /\ lastPush' = NoPush
    /\ prevPush' = NoPush
    /\ hops' = 0
    /\ UNCHANGED <<moduleVars, concVars, themeVars>>

\* lines 48 and 124: router.push(path) requests the pushed path
RouterPush(h) ==
    /\ page.kind = "navigating"
    /\ Request(lastPush.path, h)
    /\ page' = Loading
    /\ hops' = 0
    /\ UNCHANGED <<lastPush, prevPush>>
    /\ UNCHANGED <<moduleVars, concVars, themeVars>>

\* the tab receives the response of the request in flight
Settle ==
    /\ pc \in {"done", "served"}
    /\ page.kind = "loading"
    /\ IF pc = "done" /\ response.kind = "redirect"
       THEN /\ hops < MaxHops
            /\ pc' = IF matcher(response.location) THEN "received" ELSE "served"
            /\ pathname' = response.location
            /\ nextUrl' = NextURLOf(response.location, response)
            /\ locale' = NoLocale
            /\ response' = NoResponse
            /\ hops' = hops + 1
            /\ UNCHANGED <<header, page>>
       ELSE /\ pc' = "idle"
            /\ pathname' = <<"/">>
            /\ header' = AbsentHeader
            /\ nextUrl' = NextURL(<<"/">>)
            /\ locale' = NoLocale
            /\ response' = NoResponse
            /\ UNCHANGED hops
            /\ IF pc = "served"
               THEN page' = [kind |-> "asset", pathname |-> << >>, locale |-> << >>]
               ELSE IF response.kind = "error"
               THEN page' = [kind |-> "error", pathname |-> << >>, locale |-> << >>]
               ELSE \E landed \in {pathname, removeTrailingSlash(pathname)} :
                        page' = Page(landed, useLocale(landed))
    /\ UNCHANGED <<lastPush, prevPush>>
    /\ UNCHANGED <<moduleVars, concVars, themeVars>>

InitNav ==
    /\ ModuleInit
    /\ ServerIdle
    /\ NoConcurrency
    /\ NoThemeSwitcher
    /\ page \in SettledPages
    /\ lastPush = NoPush
    /\ prevPush = NoPush
    /\ hops = 0

NextNav ==
    \/ \E p \in Paths, h \in ConcHeaders : Visit(p, h)
    \/ \E i \in 1..Len(languages) : ClickLanguageButton(languages[i])
    \/ \E i \in 1..Len(menuLocales) : SelectLanguageItem(menuLocales[i])
    \/ \E h \in ConcHeaders : RouterPush(h)
    \/ middleware
    \/ Settle

SpecNav == InitNav /\ [][NextNav]_vars

(***************************************************************************)
(* Vocabulary of the properties, written independently of the handler.     *)
(***************************************************************************)
en == <<"e", "n">>

ar == <<"a", "r">>

SupportedLocaleSet == {en, ar}

\* p starts with "/<l>/" or equals "/<l>"
PrefixedBy(p, l) ==
    \/ p = <<"/">> \o l
    \/ Len(p) >= Len(l) + 2 /\ SubSeq(p, 1, Len(l) + 2) = <<"/">> \o l \o <<"/">>

LocalePrefixed(p) == \E l \in SupportedLocaleSet : PrefixedBy(p, l)

Handled == pc = "done"

Sent(v) == [present |-> TRUE, value |-> v]

\* the language subtag of a tag, in lower case
LanguageOf(tag) ==
    LET lang == split(tag, "-")[1]
    IN [k \in 1..Len(lang) |-> toLowerChar(lang[k])]

\* the client's preferences, highest weight first; none when the header is
\* absent or empty
Preferences(h) ==
    IF h.present THEN preferredLanguages(h.value) ELSE << >>

\* positions of the preferences whose language is supported
SupportedPositions(h) ==
    {k \in 1..Len(Preferences(h)) : LanguageOf(Preferences(h)[k]) \in SupportedLocaleSet}

\* the weighted entries of the header that name a supported locale exactly
WeightedEntries(h) ==
    IF h.present THEN SelectSeq(parseAcceptLanguage(h.value), isQuality) ELSE << >>

\* C1: a request whose path starts with "/<locale>/" or equals "/<locale>"
\* for a supported locale is passed through and never redirected, whatever
\* its accept-language header is.
C1_PrefixedPassesThrough ==
    Handled /\ LocalePrefixed(pathname) => response = NextResponseNext

C1_Witness ==
    /\ Handled
    /\ pathname = <<"/">> \o ar
    /\ header = Sent(en)
    /\ response.kind = "next"

\* C2: a request whose path is not prefixed with a supported locale is
\* answered with a redirect whose target is prefixed with exactly one
\* supported locale, for every accept-language header.
C2_UnprefixedRedirects ==
    Handled /\ ~LocalePrefixed(pathname) =>
        /\ response.kind = "redirect"
        /\ Cardinality({l \in SupportedLocaleSet : PrefixedBy(response.location, l)}) = 1

\* C3: the path "/" is redirected to "/<locale>", without a trailing slash
\* or a double slash; with the header missing the target is "/en".
C3_RootRedirectsWithoutSlash ==
    Handled /\ pathname = <<"/">> =>
        /\ response.kind = "redirect"
        /\ \E l \in SupportedLocaleSet : response.location = <<"/">> \o l
        /\ header = AbsentHeader => response.location = <<"/">> \o en

\* C4: locale resolution never raises: for every header the handler ends
\* without an error, and for an unprefixed path getLocale yields a supported
\* locale and the response is a redirect.
C4_NeverRaises ==
    Handled =>
        /\ response.kind # "error"
        /\ ~LocalePrefixed(pathname) =>
              /\ ~locale.threw
              /\ locale.value \in SupportedLocaleSet
              /\ response.kind = "redirect"

\* C5: getLocale returns the default locale "en" when the preference is
\* absent, empty, unparseable or matches no supported locale.
C5_DefaultWhenNoMatch ==
    Handled /\ ~LocalePrefixed(pathname) /\ SupportedPositions(header) = {} =>
        locale = Return(en)

\* C6: when the highest-weight preference is a supported locale, getLocale
\* returns exactly that locale; "/about" with "ar;q=0.9,en;q=0.5" is
\* redirected to "/ar/about".
C6_TopPreferenceWins ==
    Handled /\ ~LocalePrefixed(pathname) /\ Len(Preferences(header)) >= 1
            /\ Preferences(header)[1] \in SupportedLocaleSet =>
        /\ locale = Return(Preferences(header)[1])
        /\ pathname = <<"/", "a", "b", "o", "u", "t">> /\ header = Sent(<<"a", "r", ";", "q", "=", "0", ".", "9", ",", "e", "n", ";", "q", "=", "0", ".", "5">>) =>
              /\ response.kind = "redirect"
              /\ response.location = <<"/", "a", "r", "/", "a", "b", "o", "u", "t">>

\* C7: for every unprefixed path the redirect target is "/" + locale + the
\* original path, for the resolved supported locale.
C7_TargetIsLocalePlusPath ==
    Handled /\ ~LocalePrefixed(pathname) =>
        /\ response.kind = "redirect"
        /\ \E l \in SupportedLocaleSet :
              /\ locale = Return(l)
              /\ response.location = <<"/">> \o l \o pathname

\* C8: when "en" and "ar" are both named with the same, highest weight,
\* getLocale returns "en", the earlier one in the declared order, whatever
\* the order of the tags in the header.
C8_TieBreakDeclaredOrder ==
    LET es == WeightedEntries(header)
        tied == \E i, j \in 1..Len(es) :
                   /\ es[i].full = en
                   /\ es[j].full = ar
                   /\ es[i].q = es[j].q
                   /\ \A k \in 1..Len(es) : es[k].q.milli <= es[i].q.milli
    IN Handled /\ ~LocalePrefixed(pathname) /\ tied => locale = Return(en)

\* C9: getLocale returns the supported locale matched by the highest-weight
\* preference that matches any supported locale, also when preferences of
\* higher weight name unsupported languages.
C9_HighestMatchingPreference ==
    Handled /\ ~LocalePrefixed(pathname) /\ SupportedPositions(header) # {} =>
        LET first == CHOOSE k \in SupportedPositions(header) :
                        \A m \in SupportedPositions(header) : k <= m
        IN locale = Return(LanguageOf(Preferences(header)[first]))

\* C10: a path whose first segment is not exactly a supported locale code
\* is redirected with the whole original path appended and never passed
\* through: "/fr/about" with header "fr" goes to "/en/fr/about", and
\* "/english", "/arx/y" and "/EN/about" are redirected too.
C10_NearLocaleSegmentsRedirect ==
    Handled /\ pathname \in {<<"/", "f", "r", "/", "a", "b", "o", "u", "t">>, <<"/", "e", "n", "g", "l", "i", "s", "h">>, <<"/", "a", "r", "x", "/", "y">>, <<"/", "E", "N", "/", "a", "b", "o", "u", "t">>} =>
        /\ response.kind = "redirect"
        /\ Len(response.location) >= Len(pathname)
        /\ SubSeq(response.location,
                  Len(response.location) - Len(pathname) + 1,
                  Len(response.location)) = pathname
        /\ pathname = <<"/", "f", "r", "/", "a", "b", "o", "u", "t">> /\ header = Sent(<<"f", "r">>) =>
              response.location = <<"/", "e", "n", "/", "f", "r", "/", "a", "b", "o", "u", "t">>

\* C11: in every reachable state the supported locales are non-empty and
\* contain the default locale, and request handling leaves both as the
\* module created them: ["en", "ar"] and "en".
C11_LocalesStayAsLoaded ==
    /\ Len(locales) > 0
    /\ \E i \in 1..Len(locales) : locales[i] = defaultLocale
    /\ locales = <<en, ar>>
    /\ defaultLocale = en

C11_Witness ==
    /\ Handled
    /\ locale = Throw("TypeError")
    /\ locales = <<en, ar>>
    /\ defaultLocale = en

\* C13: on the pass-through outcome request.nextUrl is as it arrived; its
\* pathname differs from the arrived one only on the redirect outcome.
C13_PassThroughLeavesUrl ==
    [][pc = "received" =>
          /\ response'.kind = "next" => nextUrl' = nextUrl /\ nextUrl'.pathname = pathname
          /\ nextUrl'.pathname # pathname => response'.kind = "redirect"]_vars

C13_Witness ==
    /\ Handled
    /\ response.kind = "next"
    /\ pathname = <<"/", "e", "n", "/", "a", "b", "o", "u", "t">>
    /\ nextUrl.pathname = <<"/", "e", "n", "/", "a", "b", "o", "u", "t">>

\* the first segment of p starts with "_next"
InternalPath(p) ==
    Len(p) >= 6 /\ SubSeq(p, 1, 6) = <<"/", "_", "n", "e", "x", "t">>

\* C14: the middleware is never invoked for a path whose first segment
\* starts with "_next", and such a path is never redirected.
C14_InternalPathsSkipMiddleware ==
    InternalPath(pathname) =>
        /\ pc \notin {"received", "done"}
        /\ response = NoResponse
        /\ locale = NoLocale

C14_Witness ==
    /\ pc = "served"
    /\ pathname = <<"/", "_", "n", "e", "x", "t", "/", "s", "t", "a", "t", "i", "c", "/", "a", ".", "j", "s">>
    /\ response.kind = "none"

\* C12: invocations are independent and stateless: under any interleaving,
\* two requests with equal path and accept-language header end with the
\* same outcome (pass-through, or redirect and its target).
C12_SameRequestSameOutcome ==
    \A r1, r2 \in DOMAIN reqs :
        /\ reqs[r1].pc = "done"
        /\ reqs[r2].pc = "done"
        /\ reqs[r1].pathname = reqs[r2].pathname
        /\ reqs[r1].header = reqs[r2].header
        => /\ reqs[r1].response = reqs[r2].response
           /\ reqs[r1].nextUrl = reqs[r2].nextUrl

C12_Witness ==
    /\ DOMAIN reqs = ReqIds
    /\ \A r \in ReqIds :
          /\ reqs[r].pc = "done"
          /\ reqs[r].pathname = <<"/", "e", "n">>
          /\ reqs[r].header = Sent(ar)
          /\ reqs[r].response.kind = "next"

ButtonClicks == {k \in 1..Len(clicks) : clicks[k].by = "button"}

\* C16: `mounted` starts false; while it is false only the skeleton is
\* rendered and no button has called setTheme; once true it stays true,
\* and while it is true the three buttons are rendered.
C16_SkeletonUntilMounted ==
    /\ ~mounted
    /\ [](~mounted => dom = Skeleton /\ ButtonClicks = {})
    /\ [][mounted => mounted']_vars
    /\ [](mounted => dom.kind = "buttons")

C16_Witness ==
    /\ mounted
    /\ dom.kind = "buttons"
    /\ ButtonClicks # {}

\* C17: after any sequence of clicks the theme is the value of the last
\* click, exactly one of the rendered buttons is active, the one of the
\* current theme, and never two.
C17_OneActiveButton ==
    /\ Cardinality(dom.active) <= 1
    /\ dom.kind = "buttons" => dom.active = {theme}
    /\ clicks # << >> => theme = clicks[Len(clicks)].value

C17_Witness ==
    /\ Len(clicks) >= 2
    /\ clicks[Len(clicks) - 1] = [by |-> "button", value |-> "light"]
    /\ clicks[Len(clicks)] = [by |-> "button", value |-> "dark"]
    /\ dom = [kind |-> "buttons", active |-> {"dark"}]

\* what follows the locale segment of a path prefixed by l
RestAfter(p, l) == SubSeq(p, Len(l) + 2, Len(p))

\* C15: from a pathname "/<current locale>" + rest, either switcher pushes
\* "/<target locale>" + rest, with "/" for an empty rest.
C15_SwitchKeepsRest ==
    lastPush.by # "none" /\ PrefixedBy(lastPush.from.pathname, lastPush.from.locale) =>
        lastPush.path =
            <<"/">> \o lastPush.newLocale
            \o (IF RestAfter(lastPush.from.pathname, lastPush.from.locale) = << >>
                THEN <<"/">>
                ELSE RestAfter(lastPush.from.pathname, lastPush.from.locale))

C15_Witness ==
    /\ lastPush.by = "menu"
    /\ lastPush.from = Page(<<"/", "e", "n", "/", "a", "b", "o", "u", "t">>, en)
    /\ lastPush.newLocale = ar
    /\ lastPush.path = <<"/", "a", "r", "/", "a", "b", "o", "u", "t">>

\* the path the other switcher would push for the same click
OtherSwitcherPath ==
    IF lastPush.by = "button"
    THEN toggleSwitchLanguage(lastPush.from.pathname, lastPush.newLocale)
    ELSE switchLanguage(lastPush.from.pathname, lastPush.from.locale, lastPush.newLocale)

SwitchSettled == lastPush.by # "none" /\ page.kind \notin {"navigating", "loading"}

\* C19: the path a language switch pushes is prefixed by the clicked locale,
\* middleware passes it through, and the page it settles on has the clicked
\* locale.
C19_SwitchLandsOnClickedLocale ==
    /\ lastPush.by # "none" => PrefixedBy(lastPush.path, lastPush.newLocale)
    /\ lastPush.by # "none" /\ pc = "done" => response.kind = "next"
    /\ SwitchSettled => page.kind = "page" /\ page.locale = lastPush.newLocale

C19_Witness ==
    /\ SwitchSettled
    /\ lastPush.by = "button"
    /\ lastPush.from = Page(<<"/", "e", "n">>, en)
    /\ lastPush.newLocale = ar
    /\ page.locale = ar
    /\ page.pathname \in {<<"/", "a", "r">>, <<"/", "a", "r", "/">>}

\* C18: no redirect loop: an unprefixed request is redirected to a
\* locale-prefixed target, the request for the target is passed through, and
\* every request settles on a page after at most one redirect.
C18_SettlesAfterOneRedirect ==
    /\ hops <= 1
    /\ page.kind # "error"
    /\ pc = "done" /\ hops = 0 /\ ~LocalePrefixed(pathname) =>
          response.kind = "redirect" /\ LocalePrefixed(response.location)
    /\ pc = "done" /\ hops = 1 => response.kind = "next"

\* the last two clicks of a visit went to some locale and then, on the page
\* of the path the first click pushed, to the locale of the page the first
\* click was made on
BackAtLocale ==
    /\ prevPush.by # "none"
    /\ lastPush.by # "none"
    /\ lastPush.from.pathname = prevPush.path
    /\ lastPush.newLocale = prevPush.from.locale
    /\ PrefixedBy(prevPush.from.pathname, prevPush.from.locale)

\* a click on the language that is already current
SameLocaleClick ==
    /\ lastPush.by # "none"
    /\ lastPush.newLocale = lastPush.from.locale
    /\ PrefixedBy(lastPush.from.pathname, lastPush.from.locale)

\* C21 as stated: switching to another locale and back pushes exactly the
\* pathname p the round trip started on, and switching to the current locale
\* pushes exactly p, also for p = "/en" and p = "/ar".
C21_RoundTripExact ==
    /\ BackAtLocale => lastPush.path = prevPush.from.pathname
    /\ SameLocaleClick => lastPush.path = lastPush.from.pathname

\* p, with the slash the switchers add after a bare locale
WithRestSlash(p, l) == IF p = <<"/">> \o l THEN p \o <<"/">> ELSE p

\* C21 amended: the round trip and the switch to the current locale push
\* exactly p when p is "/<locale>/" + anything, and p with a trailing slash
\* added ("/en/", "/ar/") when p is "/en" or "/ar".
C21_RoundTripUpToRootSlash ==
    /\ BackAtLocale =>
          lastPush.path = WithRestSlash(prevPush.from.pathname, prevPush.from.locale)
    /\ SameLocaleClick =>
          lastPush.path = WithRestSlash(lastPush.from.pathname, lastPush.from.locale)

C21_Witness ==
    /\ BackAtLocale
    /\ prevPush.by = "menu"
    /\ prevPush.from = Page(<<"/", "e", "n", "/", "a", "b", "o", "u", "t">>, en)
    /\ prevPush.newLocale = ar
    /\ lastPush.by = "button"
    /\ lastPush.from = Page(<<"/", "a", "r", "/", "a", "b", "o", "u", "t">>, ar)
    /\ lastPush.path = <<"/", "e", "n", "/", "a", "b", "o", "u", "t">>

\* C22: the redirect of an unprefixed request goes to request.nextUrl with
\* only its pathname changed: the target has the query string and the host
\* the request came with, and nothing but the pathname of request.nextUrl is
\* assigned.
C22_RedirectKeepsQueryAndHost ==
    [][pc = "received" /\ ~LocalePrefixed(pathname) =>
          /\ response'.kind = "redirect"
          /\ response'.search = nextUrl.search
          /\ response'.host = nextUrl.host
          /\ nextUrl' = [nextUrl EXCEPT !.pathname = nextUrl'.pathname]]_vars

====
